---- MODULE Spec2Model ----
(***************************************************************************)
(* Model of src/app.py: the ContentPlannerAPI start-up, the two POST       *)
(* handlers generate_plan and create_google_doc, and the pure formatter    *)
(* format_content_for_docs.                                                *)
(*                                                                         *)
(* Python values are tagged records: None, str, int, list, dict.  A dict   *)
(* is a function whose DOMAIN is the set of keys that are present, so      *)
(* dict.get(key, default) distinguishes an absent key from a present one.  *)
(* Texts are TLA+ strings, so Len is Python's len and \o is concatenation. *)
(*                                                                         *)
(* A handler is one action up to its first outbound call; each outbound    *)
(* call is awaited, so its return (ok or raised) is the next action, which *)
(* runs the handler on to the next call or to its answer.  Reading         *)
(* request.json (in the handlers' first log lines) raises for a body that  *)
(* is not JSON, inside the handler's try block.                            *)
(***************************************************************************)
EXTENDS Integers, Sequences, FiniteSets, TLC

VARIABLES
    environ,    \* os.environ / the file system, as ContentPlannerAPI sees it
    planner,    \* the module-level ContentPlannerAPI instance
    pc,         \* where the process is: boot, idle, a handler, an awaited call, done
    request,    \* the HTTP request being served
    local,      \* the handler's local variables
    calls,      \* outbound calls of the current request, oldest first
    response    \* the HTTP response of the current request

vars == <<environ, planner, pc, request, local, calls, response>>

----------------------------------------------------------------------------
(* Bounds of the model *)

MaxScenes == 2

----------------------------------------------------------------------------
(* Python values *)

None == [t |-> "None"]
PyStr(s) == [t |-> "str", s |-> s]
PyInt(n) == [t |-> "int", n |-> n]
PyList(items) == [t |-> "list", items |-> items]
PyDict(d) == [t |-> "dict", d |-> d]

EmptyDict == PyDict([k \in {} |-> None])

\* Python truthiness, as used by `if not x`.
truthy(v) ==
    CASE v.t = "None" -> FALSE
      [] v.t = "str"  -> v.s # ""
      [] v.t = "int"  -> v.n # 0
      [] v.t = "list" -> Len(v.items) > 0
      [] v.t = "dict" -> DOMAIN v.d # {}

\* str(v) as an f-string applies it to the values the model uses as fields.
str(v) ==
    CASE v.t = "str"  -> v.s
      [] v.t = "int"  -> ToString(v.n)
      [] v.t = "None" -> "None"

\* dict.get(key, default)
get(dict, key, default) ==
    IF key \in DOMAIN dict.d THEN dict.d[key] ELSE default

\* A raised exception and a normal return of a Python call.
Raise(message) == [raised |-> TRUE, error |-> message]
Return(value) == [raised |-> FALSE, value |-> value]

AttributeErrorGet(v) ==
    CASE v.t = "str"  -> "'str' object has no attribute 'get'"
      [] v.t = "int"  -> "'int' object has no attribute 'get'"
      [] v.t = "list" -> "'list' object has no attribute 'get'"
      [] v.t = "None" -> "'NoneType' object has no attribute 'get'"

TypeErrorIter(v) ==
    CASE v.t = "int"  -> "'int' object is not iterable"
      [] v.t = "None" -> "'NoneType' object is not iterable"

----------------------------------------------------------------------------
(* format_content_for_docs *)

InsertText(index, text) ==
    [insertText |-> [location |-> [index |-> index], text |-> text]]

\* The mutated form of Advance: the cursor advances by the visible
\* characters only, as if the two trailing newlines were not counted.
AdvanceVisible(current_index, text) == current_index + Len(text) - 2

\* current_index += len(text)
Advance(current_index, text) == current_index + Len(text)

\* The mutated form of AppendRequest: the new operation is put first.
PrependRequest(requests, op) == <<op>> \o requests

\* requests.append(op)
AppendRequest(requests, op) == Append(requests, op)

title_text(content_plan) ==
    str(get(content_plan, "title", PyStr("Untitled"))) \o "\n\n"

metadata_text(content_plan) ==
    "Topic: " \o str(get(content_plan, "topic", PyStr("")))
    \o "\nDuration: " \o str(get(content_plan, "duration", PyInt(60)))
    \o " seconds\nKey Message: "
    \o str(get(content_plan, "key_message", PyStr(""))) \o "\n\n"

scenes_text == "Scene Breakdown:\n\n"

scene_text(scene) ==
    "Scene " \o str(get(scene, "scene_number", PyInt(0)))
    \o ": " \o str(get(scene, "duration", PyInt(0)))
    \o " seconds\nSubtitle: " \o str(get(scene, "subtitle", PyStr("")))
    \o "\nNarration: " \o str(get(scene, "narration", PyStr("")))
    \o "\nVisual Reference: "
    \o str(get(scene, "visual_description", PyStr(""))) \o "\n\n"

conclusion_text(content_plan) ==
    "\nConclusion: " \o str(get(content_plan, "conclusion", PyStr("")))

\* The for loop over the scenes: st is [requests, current_index], scenes the
\* items not yet visited.  A scene that is no dict raises at scene.get.
RECURSIVE scene_loop(_, _)
scene_loop(scenes, st) ==
    IF scenes = <<>> THEN Return(st)
    ELSE IF Head(scenes).t # "dict" THEN Raise(AttributeErrorGet(Head(scenes)))
    ELSE LET text == scene_text(Head(scenes)) IN
         scene_loop(Tail(scenes),
            [requests |-> AppendRequest(st.requests,
                              InsertText(st.current_index, text)),
             current_index |-> Advance(st.current_index, text)])

format_content_for_docs(content_plan) ==
    IF content_plan.t # "dict" THEN Raise(AttributeErrorGet(content_plan))
    ELSE
    LET i0 == 1
        r1 == AppendRequest(<<>>, InsertText(i0, title_text(content_plan)))
        i1 == Advance(i0, title_text(content_plan))
        r2 == AppendRequest(r1, InsertText(i1, metadata_text(content_plan)))
        i2 == Advance(i1, metadata_text(content_plan))
        r3 == AppendRequest(r2, InsertText(i2, scenes_text))
        i3 == Advance(i2, scenes_text)
        scenes == get(content_plan, "scenes", PyList(<<>>))
    IN  IF scenes.t # "list" THEN Raise(TypeErrorIter(scenes))
        ELSE LET looped == scene_loop(scenes.items,
                              [requests |-> r3, current_index |-> i3])
             IN  IF looped.raised THEN looped
                 ELSE Return(AppendRequest(looped.value.requests,
                          InsertText(looped.value.current_index,
                                     conclusion_text(content_plan))))

----------------------------------------------------------------------------
(* json.loads and the credential loaders, on the texts the model uses *)

PlanTextTea == "{\"title\": \"Tea\", \"scenes\": [{\"scene_number\": 1}]}"
PlanTextBare == "{\"topic\": \"x\"}"

SceneOne == PyDict([scene_number |-> PyInt(1)])
PlanTea == PyDict([title |-> PyStr("Tea"), scenes |-> PyList(<<SceneOne>>)])
PlanBare == PyDict([topic |-> PyStr("x")])
PlanNullScenes == PyDict([title |-> PyStr("Tea"), scenes |-> None])

\* json.loads(text): the decoded value, or JSONDecodeError.
json_loads(text) ==
    CASE text = PlanTextTea  -> Return(PlanTea)
      [] text = PlanTextBare -> Return(PlanBare)
      [] text = "{}"         -> Return(EmptyDict)
      [] text = "[1]"        -> Return(PyList(<<PyInt(1)>>))
      [] text = "7"          -> Return(PyInt(7))
      [] text = "null"       -> Return(None)
      [] OTHER -> Raise("Expecting value: line 1 column 1 (char 0)")

CredsJson == "{\"type\": \"service_account\"}"
CredsBase64 == "eyJ0eXBlIjogInNlcnZpY2VfYWNjb3VudCJ9"

\* base64.b64decode(text).decode('utf-8')
b64decode(text) ==
    IF text = CredsBase64 THEN Return(CredsJson)
    ELSE Raise("Incorrect padding")

\* service_account.Credentials.from_service_account_info(json.loads(text))
from_service_account_info(text, source) ==
    IF text = CredsJson THEN Return([source |-> source])
    ELSE Raise("Service account info was not in the expected format")

----------------------------------------------------------------------------
(* ContentPlannerAPI.__init__ *)

NoServices ==
    [openai_client |-> FALSE, docs_service |-> FALSE, drive_service |-> FALSE,
     google_creds |-> None, init_error |-> None]

\* The Google credentials the constructor loads: Return(None) when no source
\* is present, Return(creds) from the first source present, Raise when that
\* source does not load.  The mutated form asks the sources in the order
\* Base64 variable, JSON variable, file.
load_credentials_base64_first(env) ==
    LET json == get(env.vars, "GOOGLE_CREDENTIALS_JSON", None)
        b64 == get(env.vars, "GOOGLE_CREDENTIALS_JSON_BASE64", None)
    IN  IF truthy(b64) THEN
            LET decoded == b64decode(b64.s) IN
            IF decoded.raised THEN decoded
            ELSE from_service_account_info(decoded.value, "base64")
        ELSE IF truthy(json) THEN from_service_account_info(json.s, "json")
        ELSE IF env.file # "absent" THEN
            IF env.file = "valid" THEN Return([source |-> "file"])
            ELSE Raise("Service account info was not in the expected format")
        ELSE Return(None)

load_credentials(env) ==
    LET json == get(env.vars, "GOOGLE_CREDENTIALS_JSON", None)
        b64 == get(env.vars, "GOOGLE_CREDENTIALS_JSON_BASE64", None)
    IN  IF env.file # "absent" THEN
            IF env.file = "valid" THEN Return([source |-> "file"])
            ELSE Raise("Service account info was not in the expected format")
        ELSE IF truthy(json) THEN from_service_account_info(json.s, "json")
        ELSE IF truthy(b64) THEN
            LET decoded == b64decode(b64.s) IN
            IF decoded.raised THEN decoded
            ELSE from_service_account_info(decoded.value, "base64")
        ELSE Return(None)

\* The constructor.  openai_raises: openai.OpenAI(...) raises; build is the
\* outcome of the two build(...) calls: "ok", "docs_raises" or "drive_raises".
ContentPlannerAPI_init(env, openai_raises, build) ==
    LET key == get(env.vars, "OPENAI_API_KEY", None)
        p1 == [NoServices EXCEPT !.openai_client = truthy(key)]
        creds == load_credentials(env)
    IN  IF truthy(key) /\ openai_raises
            THEN [NoServices EXCEPT !.init_error = PyStr("OpenAI client error")]
        ELSE IF creds.raised
            THEN [p1 EXCEPT !.init_error = PyStr(creds.error)]
        ELSE IF creds.value = None THEN p1
        ELSE LET p2 == [p1 EXCEPT !.google_creds = creds.value] IN
             CASE build = "docs_raises" ->
                    [p2 EXCEPT !.init_error = PyStr("build docs failed")]
               [] build = "drive_raises" ->
                    [p2 EXCEPT !.docs_service = TRUE,
                               !.init_error = PyStr("build drive failed")]
               [] OTHER ->
                    [p2 EXCEPT !.docs_service = TRUE, !.drive_service = TRUE]

----------------------------------------------------------------------------
(* Responses *)

jsonify(body, status) == [status |-> status, json |-> body]

Failure(error, status) == jsonify([success |-> FALSE, error |-> error], status)

\* The mutated form of except_Exception: a fixed text instead of str(e).
except_Exception_generic(e) == Failure("Internal server error", 500)

\* except Exception as e: return jsonify({success: False, error: str(e)}), 500
except_Exception(e) == Failure(e, 500)

\* What a handler does next: answer, or issue its first outbound call.
Respond(resp) == [kind |-> "respond", response |-> resp, exception |-> None]
Caught(e) ==
    [kind |-> "respond", response |-> except_Exception(e),
     exception |-> PyStr(e)]
Proceed(locals) == [kind |-> "call", locals |-> locals]

BadRequestMessage == "400 Bad Request: Failed to decode JSON object"

NoLocals ==
    [topic |-> None, duration |-> None, content_plan |-> None,
     user_email |-> None, title |-> None, document_id |-> None,
     requests |-> None, exception |-> None]

\* The mutated form of key_check: a missing header is let through.
key_check_lenient(api_key, expected_key) ==
    IF ~truthy(expected_key) THEN Failure("Server configuration error", 500)
    ELSE IF api_key # None /\ api_key # expected_key
        THEN Failure("Invalid API key", 401)
    ELSE None

\* "Validate API key": the answer that ends the request, or None.
key_check(api_key, expected_key) ==
    IF ~truthy(expected_key) THEN Failure("Server configuration error", 500)
    ELSE IF api_key # expected_key THEN Failure("Invalid API key", 401)
    ELSE None

----------------------------------------------------------------------------
(* generate_plan, up to its outbound call *)

\* "Check if planner is initialized"
openai_check(p) ==
    IF ~p.openai_client THEN Failure("OpenAI service not initialized", 503)
    ELSE None

generate_plan_checks(req, env, p) ==
    IF ~req.body.readable THEN Caught(BadRequestMessage)
    ELSE
    LET api_key == get(req.headers, "X-API-Key", None)
        expected_key == get(env.vars, "BUBBLE_API_KEY", None)
        data == req.body.json
    IN  IF key_check(api_key, expected_key) # None
            THEN Respond(key_check(api_key, expected_key))
        ELSE IF openai_check(p) # None THEN Respond(openai_check(p))
        ELSE IF ~truthy(data)
            THEN Respond(Failure("No JSON data received", 400))
        ELSE IF data.t # "dict" THEN Caught(AttributeErrorGet(data))
        ELSE IF ~truthy(get(data, "topic", None))
            THEN Respond(Failure("Topic is required", 400))
        ELSE IF ~p.openai_client THEN Caught("OpenAI client not initialized")
        ELSE Proceed([NoLocals EXCEPT
                        !.topic = get(data, "topic", None),
                        !.duration = get(data, "duration", PyInt(60))])

----------------------------------------------------------------------------
(* create_google_doc, up to its first outbound call *)

\* The mutated form of google_check: only the document service is asked for.
google_check_docs_only(p) ==
    IF ~p.docs_service
        THEN Failure("Google services not initialized", 503)
    ELSE None

\* "Check if Google services are initialized"
google_check(p) ==
    IF ~p.docs_service \/ ~p.drive_service
        THEN Failure("Google services not initialized", 503)
    ELSE None

\* The mutated form of required_fields: user_email is not asked for.
required_fields_plan_only(content_plan, user_email) ==
    IF ~truthy(content_plan) THEN Failure("content_plan is required", 400)
    ELSE None

\* The two `if not ...` checks of the body fields.
required_fields(content_plan, user_email) ==
    IF ~truthy(content_plan) THEN Failure("content_plan is required", 400)
    ELSE IF ~truthy(user_email) THEN Failure("user_email is required", 400)
    ELSE None

\* The mutated form of coerce: a string that does not parse becomes an
\* empty plan.
coerce_strict(content_plan) ==
    IF content_plan.t = "str" THEN
        IF json_loads(content_plan.s).raised THEN EmptyDict
        ELSE json_loads(content_plan.s).value
    ELSE content_plan

\* "Parse content_plan if it's a string"
coerce(content_plan) ==
    IF content_plan.t = "str" THEN
        IF json_loads(content_plan.s).raised THEN content_plan
        ELSE json_loads(content_plan.s).value
    ELSE content_plan

create_google_doc_checks(req, env, p) ==
    IF ~req.body.readable THEN Caught(BadRequestMessage)
    ELSE
    LET api_key == get(req.headers, "X-API-Key", None)
        expected_key == get(env.vars, "BUBBLE_API_KEY", None)
        data == req.body.json
    IN  IF key_check(api_key, expected_key) # None
            THEN Respond(key_check(api_key, expected_key))
        ELSE IF google_check(p) # None THEN Respond(google_check(p))
        ELSE IF ~truthy(data)
            THEN Respond(Failure("No JSON data received", 400))
        ELSE IF data.t # "dict" THEN Caught(AttributeErrorGet(data))
        ELSE
        LET content_plan == get(data, "content_plan", None)
            user_email == get(data, "user_email", None)
        IN  IF required_fields(content_plan, user_email) # None
                THEN Respond(required_fields(content_plan, user_email))
            ELSE
            LET plan == coerce(content_plan)
                kept == [NoLocals EXCEPT !.content_plan = plan,
                                         !.user_email = user_email]
            IN  IF plan.t # "dict" THEN
                    [kind |-> "raise", locals |-> kept,
                     error |-> AttributeErrorGet(plan)]
                ELSE Proceed([kept EXCEPT !.title = PyStr(
                        "Short-form Content Plan: "
                        \o str(get(plan, "title", PyStr("Untitled"))))])

----------------------------------------------------------------------------
(* The inputs: environments, requests, answers of the remote services *)

Absent == [t |-> "absent"]

\* The dict with the keys of r whose value is not Absent.
MakeDict(r) == PyDict([k \in {k \in DOMAIN r : r[k] # Absent} |-> r[k]])

Secret == PyStr("s3cret")

Environs ==
    { [vars |-> MakeDict([BUBBLE_API_KEY |-> bubble,
                          OPENAI_API_KEY |-> openai,
                          GOOGLE_CREDENTIALS_JSON |-> json,
                          GOOGLE_CREDENTIALS_JSON_BASE64 |-> b64]),
       file |-> file] :
        bubble \in {Absent, PyStr(""), Secret},
        openai \in {Absent, PyStr("sk-test")},
        json \in {Absent, PyStr(CredsJson), PyStr("{oops")},
        b64 \in {Absent, PyStr(CredsBase64), PyStr("!!")},
        file \in {"absent", "valid", "invalid"} }

HeaderSets ==
    { EmptyDict,
      PyDict("X-API-Key" :> PyStr("wrong")),
      PyDict("X-API-Key" :> Secret) }

Unreadable == [readable |-> FALSE]
Json(v) == [readable |-> TRUE, json |-> v]

GenerateBodies ==
    {Unreadable, Json(None), Json(PyList(<<PyInt(1)>>))}
    \cup { Json(MakeDict([topic |-> topic, duration |-> duration])) :
             topic \in {Absent, PyStr(""), PyStr("Tea")},
             duration \in {Absent, PyInt(30)} }

ContentPlanValues ==
    { Absent, EmptyDict, PyStr(""), PlanTea, PlanBare, PlanNullScenes,
      PyStr(PlanTextTea), PyStr(PlanTextBare), PyStr("{}"),
      PyStr("Tea plan"), PyStr("[1]"), PyStr("null"), PyList(<<PyInt(1)>>) }

CreateBodies ==
    {Unreadable, Json(None), Json(PyList(<<PyInt(1)>>))}
    \cup { Json(MakeDict([content_plan |-> content_plan,
                          user_email |-> user_email])) :
             content_plan \in ContentPlanValues,
             user_email \in {Absent, PyStr(""), PyStr("a@b.c")} }

Requests ==
    { [endpoint |-> "generate_plan", headers |-> h, body |-> b] :
        h \in HeaderSets, b \in GenerateBodies }
    \cup
    { [endpoint |-> "create_google_doc", headers |-> h, body |-> b] :
        h \in HeaderSets, b \in CreateBodies }

\* Messages of the failures a remote call can raise.
ServiceErrors == {"HttpError 403", "timed out"}

\* Texts the generation service can answer with.
CompletionTexts == {PlanTextTea, "Sorry, I cannot help with that."}

DocumentIds == {"doc-1"}

----------------------------------------------------------------------------
(* The state machine *)

Init ==
    /\ environ \in Environs
    /\ planner = NoServices
    /\ pc = "boot"
    /\ request = None
    /\ local = NoLocals
    /\ calls = <<>>
    /\ response = None

\* planner = ContentPlannerAPI()
PlannerInit ==
    /\ pc = "boot"
    /\ \E openai_raises \in BOOLEAN,
          build \in {"ok", "docs_raises", "drive_raises"} :
            planner' = ContentPlannerAPI_init(environ, openai_raises, build)
    /\ pc' = "idle"
    /\ UNCHANGED <<environ, request, local, calls, response>>

\* Flask routes a POST request to its handler.
ReceiveRequest ==
    /\ pc = "idle"
    /\ \E req \in Requests :
        /\ request' = req
        /\ pc' = req.endpoint
    /\ local' = NoLocals
    /\ calls' = <<>>
    /\ response' = None
    /\ UNCHANGED <<environ, planner>>

Issue(api) == Append(calls, [api |-> api, outcome |-> "pending"])
Settle(outcome) == [calls EXCEPT ![Len(calls)].outcome = outcome]

\* The handler ends with the answer resp; e is the caught exception or None.
Finish(resp, locals, e) ==
    /\ response' = resp
    /\ local' = [locals EXCEPT !.exception = e]
    /\ pc' = "done"

Catch(locals, e) == Finish(except_Exception(e), locals, PyStr(e))

generate_plan ==
    /\ pc = "generate_plan"
    /\ LET r == generate_plan_checks(request, environ, planner) IN
        IF r.kind = "respond"
        THEN /\ Finish(r.response, local, r.exception)
             /\ UNCHANGED calls
        ELSE /\ local' = r.locals
             /\ calls' = Issue("chat.completions.create")
             /\ pc' = "chat_completions_create"
             /\ UNCHANGED response
    /\ UNCHANGED <<environ, planner, request>>

\* self.openai_client.chat.completions.create(...) comes back, and
\* generate_plan returns.
chat_completions_create ==
    /\ pc = "chat_completions_create"
    /\ \/ \E e \in ServiceErrors :
            /\ calls' = Settle("raised")
            /\ Catch(local, e)
       \/ \E text \in CompletionTexts :
            /\ calls' = Settle("ok")
            /\ IF json_loads(text).raised
               THEN Catch(local, json_loads(text).error)
               ELSE Finish(jsonify([success |-> TRUE,
                                    content_plan |-> json_loads(text).value],
                                   200),
                           local, None)
    /\ UNCHANGED <<environ, planner, request>>

create_google_doc ==
    /\ pc = "create_google_doc"
    /\ LET r == create_google_doc_checks(request, environ, planner) IN
        CASE r.kind = "respond" ->
                /\ Finish(r.response, local, r.exception)
                /\ UNCHANGED calls
          [] r.kind = "raise" ->
                /\ Catch(r.locals, r.error)
                /\ UNCHANGED calls
          [] r.kind = "call" ->
                /\ local' = r.locals
                /\ calls' = Issue("documents.create")
                /\ pc' = "documents_create"
                /\ UNCHANGED response
    /\ UNCHANGED <<environ, planner, request>>

\* The mutated form of next_step: a failed call does not end the handler.
next_step_ignoring_failure(api, raised) ==
    CASE api = "documents.create" -> "documents.batchUpdate"
      [] api = "documents.batchUpdate" -> "permissions.create"
      [] api = "permissions.create" -> "return"

\* What follows a call of create_google_doc: .execute() raising leaves the
\* try block; otherwise the next statement runs.
next_step(api, raised) ==
    IF raised THEN "except"
    ELSE CASE api = "documents.create" -> "documents.batchUpdate"
           [] api = "documents.batchUpdate" -> "permissions.create"
           [] api = "permissions.create" -> "return"

SettleAndIssue(outcome, api) ==
    Append(Settle(outcome), [api |-> api, outcome |-> "pending"])

Outcome(raised) == IF raised THEN "raised" ELSE "ok"

\* documents().create(...).execute() comes back; on success the content is
\* formatted and the batched write is issued.
documents_create ==
    /\ pc = "documents_create"
    /\ \E raised \in BOOLEAN, e \in ServiceErrors, id \in DocumentIds :
        IF next_step("documents.create", raised) = "except"
        THEN /\ calls' = Settle(Outcome(raised))
             /\ Catch(local, e)
        ELSE LET formatted == format_content_for_docs(local.content_plan)
                 created == [local EXCEPT !.document_id = PyStr(id)]
             IN  IF formatted.raised
                 THEN /\ calls' = Settle(Outcome(raised))
                      /\ Catch(created, formatted.error)
                 ELSE /\ calls' = SettleAndIssue(Outcome(raised),
                                                 "documents.batchUpdate")
                      /\ local' = [created EXCEPT
                                     !.requests = PyList(formatted.value)]
                      /\ pc' = "documents_batchUpdate"
                      /\ UNCHANGED response
    /\ UNCHANGED <<environ, planner, request>>

\* documents().batchUpdate(...).execute() comes back; on success the
\* permission grant is issued.
documents_batchUpdate ==
    /\ pc = "documents_batchUpdate"
    /\ \E raised \in BOOLEAN, e \in ServiceErrors :
        IF next_step("documents.batchUpdate", raised) = "except"
        THEN /\ calls' = Settle(Outcome(raised))
             /\ Catch(local, e)
        ELSE /\ calls' = SettleAndIssue(Outcome(raised), "permissions.create")
             /\ pc' = "permissions_create"
             /\ UNCHANGED <<local, response>>
    /\ UNCHANGED <<environ, planner, request>>

share_link(document_id) ==
    "https://docs.google.com/document/d/" \o document_id \o "/edit"

\* permissions().create(...).execute() comes back, and create_google_doc
\* returns.
permissions_create ==
    /\ pc = "permissions_create"
    /\ \E raised \in BOOLEAN, e \in ServiceErrors :
        /\ calls' = Settle(Outcome(raised))
        /\ IF next_step("permissions.create", raised) = "except"
           THEN Catch(local, e)
           ELSE Finish(jsonify([success |-> TRUE,
                                document_id |-> local.document_id.s,
                                share_link |-> share_link(local.document_id.s)],
                               200),
                       local, None)
    /\ UNCHANGED <<environ, planner, request>>

\* The handler has returned: Flask sends the response, and the request's
\* values are discarded.
SendResponse ==
    /\ pc = "done"
    /\ pc' = "idle"
    /\ request' = None
    /\ local' = NoLocals
    /\ calls' = <<>>
    /\ response' = None
    /\ UNCHANGED <<environ, planner>>

Next ==
    \/ PlannerInit
    \/ ReceiveRequest
    \/ generate_plan
    \/ chat_completions_create
    \/ create_google_doc
    \/ documents_create
    \/ documents_batchUpdate
    \/ permissions_create
    \/ SendResponse

Spec == Init /\ [][Next]_vars

----------------------------------------------------------------------------
(* The formatter on its own: every plan of a bounded set is formatted *)

SceneValues_Multiline ==
    PyDict([scene_number |-> PyInt(12), subtitle |-> None,
            narration |-> PyStr("a\nb")])

SceneValues ==
    { EmptyDict,
      PyDict([scene_number |-> PyInt(1), duration |-> PyInt(10),
              subtitle |-> PyStr("Hi"), narration |-> PyStr("Boil water"),
              visual_description |-> PyStr("kettle")]),
      SceneValues_Multiline,
      PyInt(7) }

RECURSIVE SeqsUpTo(_, _)
SeqsUpTo(S, n) ==
    IF n = 0 THEN {<<>>}
    ELSE SeqsUpTo(S, n - 1)
         \cup { Append(q, x) : q \in SeqsUpTo(S, n - 1), x \in S }

Plans ==
    { MakeDict([title |-> title, topic |-> topic, duration |-> duration,
                key_message |-> key_message, scenes |-> scenes,
                conclusion |-> conclusion]) :
        title \in {Absent, PyStr(""), PyStr("Tea")},
        topic \in {Absent, PyStr("x")},
        duration \in {Absent, PyInt(5), PyInt(120)},
        key_message \in {Absent, None},
        conclusion \in {Absent, PyStr("Bye")},
        scenes \in {Absent, None}
                   \cup { PyList(q) : q \in SeqsUpTo(SceneValues, MaxScenes) } }

FormatInit ==
    /\ environ = [vars |-> EmptyDict, file |-> "absent"]
    /\ planner = NoServices
    /\ pc = "format"
    /\ request = None
    /\ \E p \in Plans : local = [NoLocals EXCEPT !.content_plan = p]
    /\ calls = <<>>
    /\ response = None

\* requests = format_content_for_docs(content_plan)
FormatCall ==
    /\ pc = "format"
    /\ LET formatted == format_content_for_docs(local.content_plan) IN
        local' = IF formatted.raised
                 THEN [local EXCEPT !.exception = PyStr(formatted.error)]
                 ELSE [local EXCEPT !.requests = PyList(formatted.value)]
    /\ pc' = "formatted"
    /\ UNCHANGED <<environ, planner, request, calls, response>>

FormatNext == FormatCall

FormatSpec == FormatInit /\ [][FormatNext]_vars

----------------------------------------------------------------------------
(* Properties of format_content_for_docs, under FormatSpec *)

Returned == pc = "formatted" /\ local.requests # None

Text(op) == op.insertText.text
Index(op) == op.insertText.location.index

RECURSIVE TextLengthSum(_, _)
TextLengthSum(ops, n) ==
    IF n = 0 THEN 0 ELSE Len(Text(ops[n])) + TextLengthSum(ops, n - 1)

ScenesOf(plan) == get(plan, "scenes", PyList(<<>>)).items

\* C1: in the list format_content_for_docs returns, the insertion index of
\* operation i is 1 plus the sum of the text lengths of the operations
\* before it; the first index is 1.
C1_OffsetsAreCumulative ==
    Returned =>
        LET ops == local.requests.items IN
        /\ Index(ops[1]) = 1
        /\ \A i \in 1..Len(ops) :
              Index(ops[i]) = 1 + TextLengthSum(ops, i - 1)

\* A plan with two scenes, absent fields and an embedded newline has been
\* formatted.
C1_Witness ==
    /\ Returned
    /\ Len(ScenesOf(local.content_plan)) = 2
    /\ "title" \notin DOMAIN local.content_plan.d
    /\ ScenesOf(local.content_plan)[1] = SceneValues_Multiline
    /\ Index(local.requests.items[Len(local.requests.items)]) > 60

\* C2: a plan with n scenes yields exactly n+4 operations: title, metadata,
\* the "Scene Breakdown:" heading, one block per scene in input order, and
\* the conclusion; with no scenes (empty or absent) exactly the four others.
C2_FixedOrder ==
    Returned =>
        LET plan == local.content_plan
            ops == local.requests.items
            n == Len(ScenesOf(plan))
        IN  /\ Len(ops) = n + 4
            /\ Text(ops[1]) = title_text(plan)
            /\ Text(ops[2]) = metadata_text(plan)
            /\ Text(ops[3]) = "Scene Breakdown:\n\n"
            /\ \A k \in 1..n : Text(ops[3 + k]) = scene_text(ScenesOf(plan)[k])
            /\ Text(ops[n + 4]) = conclusion_text(plan)

\* Two different scenes have been formatted, in their input order.
C2_Witness ==
    /\ Returned
    /\ Len(ScenesOf(local.content_plan)) = 2
    /\ ScenesOf(local.content_plan)[1] # ScenesOf(local.content_plan)[2]
    /\ Len(local.requests.items) = 6

----------------------------------------------------------------------------
(* Properties of the handlers and of the start-up, under Spec *)

Done(endpoint) == pc = "done" /\ request.endpoint = endpoint

Serving(endpoint) ==
    pc \notin {"boot", "idle"} /\ request.endpoint = endpoint

ExpectedKey == get(environ.vars, "BUBBLE_API_KEY", None)
NoKeyHeader == "X-API-Key" \notin DOMAIN request.headers.d
CorrectKey ==
    truthy(ExpectedKey) /\ get(request.headers, "X-API-Key", None) = ExpectedKey
GoogleConfigured == planner.docs_service /\ planner.drive_service
JsonObject == request.body.readable /\ request.body.json.t = "dict"
Field(name) == get(request.body.json, name, None)

\* C3, as stated: a request to /create-google-doc without X-API-Key is
\* answered 401 with success=false, whatever the configuration.  (Stated
\* here for the requests whose body was read.)
C3_Original ==
    (Done("create_google_doc") /\ NoKeyHeader /\ request.body.readable) =>
        /\ response.status = 401
        /\ response.json.success = FALSE

\* C3, amended: a request to /create-google-doc without X-API-Key is always
\* answered with success=false; the status is 401 when the shared secret is
\* set and the body was read, and 500 when the shared secret is unset or
\* empty or the body could not be read as JSON.
C3_MissingKeyRejected ==
    (Done("create_google_doc") /\ NoKeyHeader) =>
        /\ response.json.success = FALSE
        /\ calls = <<>>
        /\ response.status =
              IF request.body.readable /\ truthy(ExpectedKey) THEN 401 ELSE 500

\* A request without the header was answered 401 although the Google
\* services are not configured.
C3_Witness ==
    /\ Done("create_google_doc") /\ NoKeyHeader
    /\ ~GoogleConfigured
    /\ response.status = 401

\* C4, as stated: with the correct key and a body without (or with an
\* empty) user_email the answer is 400, whether or not the Google services
\* are configured.
C4_Original ==
    (Done("create_google_doc") /\ CorrectKey /\ JsonObject
        /\ ~truthy(Field("user_email"))) =>
        response.status = 400

\* C4, amended: with the correct key and a JSON-object body without (or
\* with an empty) user_email the answer is 400 when both Google services
\* are configured, and 503 when one of them is not.
C4_MissingEmailRejected ==
    (Done("create_google_doc") /\ CorrectKey /\ JsonObject
        /\ ~truthy(Field("user_email"))) =>
        /\ response.json.success = FALSE
        /\ calls = <<>>
        /\ response.status = IF GoogleConfigured THEN 400 ELSE 503

\* A request with the correct key, a content plan and no user_email was
\* answered 400.
C4_Witness ==
    /\ Done("create_google_doc") /\ CorrectKey /\ JsonObject
    /\ truthy(Field("content_plan"))
    /\ "user_email" \notin DOMAIN request.body.json.d
    /\ response.status = 400
    /\ response.json.error = "user_email is required"

\* C5: with the generation client unset, every /generate-plan request with
\* the correct key is answered 503, whatever its body, and no generation
\* call is made.
C5_UnconfiguredIs503 ==
    (Done("generate_plan") /\ CorrectKey /\ ~planner.openai_client) =>
        /\ response.status = 503
        /\ calls = <<>>

CallOrder == <<"documents.create", "documents.batchUpdate", "permissions.create">>

\* C6: within one /create-google-doc request there is at most one call of
\* each kind, in the order creation, batched write, permission grant; a
\* call is issued only after the one before it returned successfully, none
\* follows a failure, and success=true is answered only after all three
\* succeeded.
C6_CallsSequentialNoRetry ==
    Serving("create_google_doc") =>
        /\ Len(calls) <= 3
        /\ \A i \in 1..Len(calls) : calls[i].api = CallOrder[i]
        /\ \A i \in 2..Len(calls) : calls[i - 1].outcome = "ok"
        /\ (pc = "done" /\ response.json.success) =>
              /\ Len(calls) = 3
              /\ \A i \in 1..3 : calls[i].outcome = "ok"

\* A request was answered success=true after its three calls.
C6_Witness ==
    /\ Done("create_google_doc")
    /\ response.json.success
    /\ Len(calls) = 3

\* C7: in both handlers every failure raised after the handler starts ends
\* the request with status 500, success=false and the failure's own message
\* as error; every answer carries a boolean success.
C7_FailuresBecomeEnvelope ==
    pc = "done" =>
        /\ "success" \in DOMAIN response.json
        /\ response.json.success \in BOOLEAN
        /\ (\E i \in 1..Len(calls) : calls[i].outcome = "raised")
              => local.exception # None
        /\ local.exception # None =>
              /\ response.status = 500
              /\ response.json.success = FALSE
              /\ response.json.error = local.exception.s

\* The permission grant, the last of three calls, failed and was answered.
C7_Witness ==
    /\ Done("create_google_doc")
    /\ Len(calls) = 3
    /\ calls[3].outcome = "raised"
    /\ local.exception = PyStr("timed out")

Present(source) ==
    CASE source = "file" -> environ.file # "absent"
      [] source = "json" ->
            truthy(get(environ.vars, "GOOGLE_CREDENTIALS_JSON", None))
      [] source = "base64" ->
            truthy(get(environ.vars, "GOOGLE_CREDENTIALS_JSON_BASE64", None))

\* The first source of the order that is present, or "none".
FirstPresent(order) ==
    IF \E i \in 1..Len(order) : Present(order[i])
    THEN order[CHOOSE i \in 1..Len(order) :
                  Present(order[i]) /\ \A j \in 1..(i - 1) : ~Present(order[j])]
    ELSE "none"

\* C8, as stated: the credentials used are those of the first source
\* present in the order Base64 variable, JSON variable, file.
C8_Original ==
    (pc # "boot" /\ planner.google_creds # None) =>
        planner.google_creds.source = FirstPresent(<<"base64", "json", "file">>)

\* C8, amended: the credentials used are those of the first source present
\* in the order file, JSON variable, Base64 variable; a later source is
\* never used, also when the first one fails to load; and with no source
\* present the document and drive services stay unavailable, the
\* constructor still completing.
C8_CredentialPriority ==
    /\ pc = "boot" => ENABLED PlannerInit
    /\ pc # "boot" =>
        /\ planner.google_creds # None =>
              planner.google_creds.source
                  = FirstPresent(<<"file", "json", "base64">>)
        /\ FirstPresent(<<"file", "json", "base64">>) = "none" =>
              /\ ~planner.docs_service
              /\ ~planner.drive_service
              /\ planner.google_creds = None

\* All three sources were present and loadable, and the file was used.
C8_Witness ==
    /\ pc = "idle"
    /\ Present("file") /\ Present("json") /\ Present("base64")
    /\ get(environ.vars, "GOOGLE_CREDENTIALS_JSON_BASE64", None)
          = PyStr(CredsBase64)
    /\ planner.google_creds = [source |-> "file"]
    /\ GoogleConfigured

\* The request passes every check before the coercion and carries a
\* content_plan string that json.loads rejects.
UnparsedStringPlan ==
    /\ Done("create_google_doc") /\ CorrectKey /\ GoogleConfigured
    /\ JsonObject
    /\ truthy(Field("user_email"))
    /\ Field("content_plan").t = "str"
    /\ truthy(Field("content_plan"))
    /\ json_loads(Field("content_plan").s).raised

\* C9, as stated: the unparsed string is kept as the plan and the handler
\* goes on to the document-creation and formatting steps with it.
C9_Original ==
    UnparsedStringPlan =>
        /\ local.content_plan = Field("content_plan")
        /\ calls # <<>>

\* C9, amended: the unparsed string is not rejected at the coercion step
\* and is kept unchanged as the plan, but the handler then fails while it
\* builds the document title from it: no document is created, nothing is
\* formatted, and the answer is 500 with the AttributeError's message.
C9_UnparsedStringFailsBeforeCreate ==
    UnparsedStringPlan =>
        /\ local.content_plan = Field("content_plan")
        /\ calls = <<>>
        /\ local.requests = None
        /\ response.status = 500
        /\ response.json.error = "'str' object has no attribute 'get'"

\* The string "Tea plan" was kept as the plan and the request answered 500.
C9_Witness ==
    /\ UnparsedStringPlan
    /\ local.content_plan = PyStr("Tea plan")
    /\ response.status = 500

\* C10: an outbound call is made only if the shared secret is set, the
\* header equals it, the services the endpoint depends on are configured
\* and the required body fields are present and non-empty; a request
\* answered 500 misconfiguration, 401, 503 or 400 has made no call.
C10_CallsOnlyAfterChecks ==
    /\ (pc \notin {"boot", "idle"} /\ calls # <<>>) =>
        /\ CorrectKey
        /\ JsonObject
        /\ IF request.endpoint = "generate_plan"
           THEN planner.openai_client /\ truthy(Field("topic"))
           ELSE /\ GoogleConfigured
                /\ truthy(Field("content_plan"))
                /\ truthy(Field("user_email"))
    /\ (pc = "done" /\ (response.status \in {400, 401, 503}
                        \/ response.json = [success |-> FALSE,
                              error |-> "Server configuration error"])) =>
        calls = <<>>

\* A document-creation call is pending.
C10_Witness ==
    /\ pc = "documents_create"
    /\ calls = <<[api |-> "documents.create", outcome |-> "pending"]>>

====
